---- MODULE Spec2Model ----
(***************************************************************************)
(* Model of src/xspfgen.py: the bounded-concurrency metadata harvest of    *)
(* generate_playlist.  One asyncio task per media file runs                *)
(* async_get_metadata under a shared asyncio.Semaphore; the coordinator    *)
(* (main + generate_playlist) awaits the tasks in discovery order, builds  *)
(* one track per file and drives the AsyncProgressBar.                     *)
(*                                                                         *)
(* asyncio is single-threaded: a step of the model is the code that runs   *)
(* between two suspension points of one coroutine.                         *)
(*                                                                         *)
(* The semaphore is asyncio.Semaphore as of Python 3.12 (Path.walk, used   *)
(* by generate_playlist, needs 3.12): FIFO waiters, a release hands the    *)
(* permit to the first waiter whose future is not done.                    *)
(*                                                                         *)
(* proc[t] is what became of the ffprobe process of task t: "none",        *)
(* "alive", "exited" (communicate returned), "killed" (proc.kill() sent,   *)
(* not waited for), "reaped" (proc.wait() returned).  Nothing in the       *)
(* program kills the process of a task that is cancelled while it probes:  *)
(* it stays "alive".                                                       *)
(***************************************************************************)
EXTENDS Integers, Sequences, FiniteSets, TLC

\* ---------------------------------------------------------------- bounds
MaxFiles == 3
MaxConcurrency == 2
\* the largest number of files in the runs checked for liveness
LiveFiles == 2
\* the largest total of a progress bar checked on its own, and the largest
\* number of seconds its clock shows
MaxTotal == 23
MaxElapsed == 3

\* ------------------------------------------------------------- constants
\* width of the progress bar, in cells (update: int(20 * progress))
BarWidth == 20

\* Python's None
None == "<None>"

\* the empty dict {} returned for a failed probe / used when -m is off
EmptyDict == [k \in {} |-> None]

\* the tag keys requested from ffprobe and read back with tags.get
TagKeys == {"title", "artist", "album", "track"}

\* ----------------------------------------------------------- JSON values
\* a JSON value that is not an object (list, string, number, null)
JNonDict == [dict |-> FALSE, items |-> EmptyDict]
JDict(f) == [dict |-> TRUE, items |-> f]

\* dict.get(key, default)
Get(d, key, default) == IF key \in DOMAIN d.items THEN d.items[key] ELSE default

\* duration strings ffprobe prints, as <<text, microseconds>>; a text that
\* float() rejects has no entry
NumericText == {"125.400000", "0"}
Micros(text) == IF text = "125.400000" THEN 125400000 ELSE 0

\* the "format" objects the modelled probe can report: a title with a
\* duration, every tag (the album tag is empty) with a duration that is no
\* number, a title without duration, and nothing at all
FormatDicts ==
    LET title == JDict([k \in {"title"} |-> "A"])
        all   == JDict([k \in TagKeys |-> IF k = "track" THEN "7"
                                         ELSE IF k = "album" THEN "" ELSE "A"])
    IN { JDict([k \in {"tags", "duration"} |-> IF k = "tags" THEN title ELSE "125.400000"]),
         JDict([k \in {"tags", "duration"} |-> IF k = "tags" THEN all ELSE "N/A"]),
         JDict([k \in {"tags"} |-> title]),
         JDict(EmptyDict) }

\* what the external process can leave on stdout: text that json.loads
\* rejects, or a JSON value of any shape
Stdouts ==
    { [valid |-> FALSE, data |-> JNonDict] }
    \cup { [valid |-> TRUE, data |-> JNonDict] }
    \cup { [valid |-> TRUE, data |-> JDict([k \in {"format"} |-> JNonDict])] }
    \cup { [valid |-> TRUE, data |-> JDict([k \in {"format"} |-> f])] : f \in FormatDicts }
    \cup { [valid |-> TRUE, data |-> JDict(EmptyDict)] }

\* what communicate() can hand back: a failed exit (stdout is not read then),
\* or exit code 0 with any of the outputs
ProbeOutcomes ==
    { [returncode |-> 1, stdout |-> [valid |-> FALSE, data |-> JNonDict]] }
    \cup { [returncode |-> 0, stdout |-> s] : s \in Stdouts }

\* ------------------------------------------------------------- variables
VARIABLES
    media_files,    \* the discovered files, in discovery order
    use_metadata,   \* -m
    isatty,         \* sys.stdout.isatty()
    output_file,    \* -f given
    concurrency,    \* -j
    pc,             \* position of main / generate_playlist
    idx,            \* 1-based position of the zip loop of generate_playlist
    error,          \* the exception that ended generate_playlist, or None
    task,           \* state of each metadata task
    result,         \* what each finished task returned or raised
    proc,           \* state of each task's ffprobe process
    communicated,   \* task -> what communicate() returned to it (exit code, stdout)
    out_of_order,   \* history: a task finished before a task created earlier had
    sem_value,      \* Semaphore._value
    waiters,        \* Semaphore._waiters, FIFO
    woken,          \* waiters whose future has a result and that did not resume yet
    tracks,         \* the track elements appended to trackList
    progress,       \* the AsyncProgressBar (exists = FALSE: progress is None)
    terminal,       \* cursor control sequences written to stdout
    cleanup_calls   \* number of calls of AsyncProgressBar.cleanup

vars == << media_files, use_metadata, isatty, output_file, concurrency, pc, idx,
           error, task, result, proc, communicated, out_of_order, sem_value, waiters,
           woken, tracks, progress, terminal, cleanup_calls >>

config == << media_files, use_metadata, isatty, output_file, concurrency >>

N == Len(media_files)
Items == 1..N

\* ------------------------------------------------------------- semaphore
\* a gate that never closes
LockedMutant == sem_value < 0

\* Semaphore.locked()
Locked == sem_value = 0 \/ waiters # << >>

RECURSIVE FirstNotDone(_, _)
FirstNotDone(ws, done) ==
    IF ws = << >> THEN 0
    ELSE IF Head(ws) \notin done THEN Head(ws)
    ELSE FirstNotDone(Tail(ws), done)

\* a release whose wake-up is lost
WakeUpNextMutant(v, ws, wk) == [value |-> v, woken |-> wk]

\* Semaphore._wake_up_next on (value, waiters, woken): the first waiter whose
\* future is not done takes a permit and has its future resolved
WakeUpNext(v, ws, wk) ==
    IF FirstNotDone(ws, wk) # 0
    THEN [value |-> v - 1, woken |-> wk \cup {FirstNotDone(ws, wk)}]
    ELSE [value |-> v, woken |-> wk]

\* the loop that ends Semaphore.acquire: wake waiters while _value > 0
RECURSIVE WakeUpWhile(_, _, _)
WakeUpWhile(v, ws, wk) ==
    IF v > 0 /\ FirstNotDone(ws, wk) # 0
    THEN WakeUpWhile(v - 1, ws, wk \cup {FirstNotDone(ws, wk)})
    ELSE [value |-> v, woken |-> wk]

\* Semaphore.release(), which ends "async with sem" on every exit path
Release(v, ws, wk) == WakeUpNext(v + 1, ws, wk)

Remove(ws, t) == SelectSeq(ws, LAMBDA x : x # t)

\* ------------------------------------------------- async_get_metadata
\* the value async_get_metadata returns, or the exception it raises, once
\* communicate() has returned with an exit code and the stdout bytes
Returned(value) == [exc |-> None, value |-> value]
Raised(exc) == [exc |-> exc, value |-> EmptyDict]

ParseProbe(returncode, stdout) ==
    IF returncode # 0 THEN Returned(EmptyDict)
    ELSE IF ~stdout.valid THEN Returned(EmptyDict)
    ELSE IF ~stdout.data.dict THEN Raised("AttributeError")
    ELSE LET format_info == Get(stdout.data, "format", JDict(EmptyDict)) IN
         IF ~format_info.dict THEN Raised("AttributeError")
         ELSE LET tags == Get(format_info, "tags", JDict(EmptyDict)) IN
              IF ~tags.dict THEN Raised("AttributeError")
              ELSE Returned([k \in TagKeys \cup {"duration"} |->
                       IF k = "duration" THEN Get(format_info, "duration", "0")
                       ELSE Get(tags, k, None)])

\* ------------------------------------------------------ track building
\* quote(f"{path_prefix}{file_path.as_posix()}")
Location(file_path) == << "quoted", file_path >>

\* int(float(text) * 1000), for a text float() accepts
DurationMs(text) == Micros(text) \div 1000

\* a test that takes every tag that is present, empty or not
TruthyMutant(metadata, key) == key \in DOMAIN metadata /\ metadata[key] # None

\* metadata.get(key) is truthy
Truthy(metadata, key) ==
    key \in DOMAIN metadata /\ metadata[key] # None /\ metadata[key] # ""

\* the XSPF element that carries a metadata key
ElementFor(key) ==
    IF key = "artist" THEN "creator"
    ELSE IF key = "track" THEN "trackNum"
    ELSE key

\* the sub-elements generate_playlist adds to one track: element name -> text
TrackOf(file_path, metadata) ==
    LET tagged == {k \in TagKeys : DOMAIN metadata # {} /\ Truthy(metadata, k)}
        timed  == DOMAIN metadata # {} /\ metadata["duration"] \in NumericText
        keys   == {"location"} \cup tagged \cup (IF timed THEN {"duration"} ELSE {})
        KeyOf(e) == CHOOSE k \in keys : ElementFor(k) = e
    IN [e \in {ElementFor(k) : k \in keys} |->
          IF e = "location" THEN Location(file_path)
          ELSE IF e = "duration" THEN << "ms", DurationMs(metadata["duration"]) >>
          ELSE << "text", metadata[KeyOf(e)] >>]

\* ------------------------------------------------------ AsyncProgressBar
NoProgress == [exists |-> FALSE, total |-> 0, completed |-> 0, hidden_cursor |-> FALSE]

\* a reporter that hides the cursor as soon as it is constructed
NewProgressMutant(total) ==
    [exists |-> TRUE, total |-> total, completed |-> 0, hidden_cursor |-> TRUE]

\* AsyncProgressBar.__init__
NewProgress(total) ==
    [exists |-> TRUE, total |-> total, completed |-> 0, hidden_cursor |-> FALSE]

\* an update whose increment is lost
UpdatedMutant(bar) == [bar EXCEPT !.hidden_cursor = TRUE]

\* AsyncProgressBar.update: the bar after the call
Updated(bar) ==
    [bar EXCEPT !.completed = bar.completed + 1, !.hidden_cursor = TRUE]

\* a fill that rounds up
FilledMutant(bar) == (BarWidth * bar.completed + bar.total - 1) \div bar.total

\* int(20 * completed / total), the number of filled cells update renders
Filled(bar) == (BarWidth * bar.completed) \div bar.total

\* "-" * (20 - filled): the cells left empty (a negative count repeats nothing)
Empty(bar) == IF Filled(bar) < BarWidth THEN BarWidth - Filled(bar) ELSE 0

\* int(elapsed / progress - elapsed) if progress > 0 else 0, as the values the
\* call can return: the quotient is a float and its rounding can lose one
\* second; with completed = total progress is 1.0 and the result is exact
Remaining(bar, elapsed) ==
    IF bar.completed = 0 THEN {0}
    ELSE LET q == (elapsed * bar.total) \div bar.completed - elapsed
         IN {q} \cup (IF q > 0 /\ bar.completed # bar.total THEN {q - 1} ELSE {})

\* -------------------------------------------------------------- tasks
Terminal == {"done", "raised", "cancelled"}
InSection == {t \in Items : task[t] \in {"spawning", "probing", "killing"}}
Unreaped(t) == proc[t] \in {"alive", "killed"}

\* the semaphore after task t left "async with sem"
Leave(t, state, res) ==
    LET r == Release(sem_value, waiters, woken) IN
    /\ task' = [task EXCEPT ![t] = state]
    /\ result' = [result EXCEPT ![t] = res]
    /\ out_of_order' = (out_of_order \/ \E u \in 1..(t - 1) : task[u] \notin Terminal)
    /\ sem_value' = r.value
    /\ woken' = r.woken
    /\ UNCHANGED waiters

coordinator == << pc, idx, error, tracks, progress, terminal, cleanup_calls >>

\* the task starts: "async with sem" either takes a permit or queues
Acquire(t) ==
    /\ task[t] = "new"
    /\ IF ~Locked
       THEN /\ sem_value' = sem_value - 1
            /\ task' = [task EXCEPT ![t] = "spawning"]
            /\ UNCHANGED waiters
       ELSE /\ waiters' = Append(waiters, t)
            /\ task' = [task EXCEPT ![t] = "waiting"]
            /\ UNCHANGED sem_value
    /\ UNCHANGED << config, coordinator, result, proc, communicated, out_of_order, woken >>

\* a woken waiter resumes inside Semaphore.acquire and enters the section
Resume(t) ==
    /\ task[t] = "waiting"
    /\ t \in woken
    /\ LET ws == Remove(waiters, t)
           r  == WakeUpWhile(sem_value, ws, woken \ {t})
       IN /\ waiters' = ws
          /\ sem_value' = r.value
          /\ woken' = r.woken
    /\ task' = [task EXCEPT ![t] = "spawning"]
    /\ UNCHANGED << config, coordinator, result, proc, communicated, out_of_order >>

\* create_subprocess_exec: the process starts, or the spawn raises OSError
Spawn(t) ==
    /\ task[t] = "spawning"
    /\ \E ok \in BOOLEAN :
         IF ok
         THEN /\ proc' = [proc EXCEPT ![t] = "alive"]
              /\ task' = [task EXCEPT ![t] = "probing"]
              /\ UNCHANGED << result, out_of_order, sem_value, waiters, woken >>
         ELSE /\ Leave(t, "raised", Raised("OSError"))
              /\ UNCHANGED proc
    /\ UNCHANGED << config, coordinator, communicated >>

\* a probe that is tried again after a non-zero exit code
CommunicateMutant(t) ==
    /\ task[t] = "probing"
    /\ \E out \in ProbeOutcomes :
         IF out.returncode # 0
         THEN /\ task' = [task EXCEPT ![t] = "spawning"]
              /\ UNCHANGED << result, communicated, out_of_order, sem_value, waiters,
                              woken >>
         ELSE LET res == ParseProbe(out.returncode, out.stdout) IN
              /\ communicated' = communicated @@ (t :> out)
              /\ Leave(t, IF res.exc = None THEN "done" ELSE "raised", res)
    /\ proc' = [proc EXCEPT ![t] = "exited"]
    /\ UNCHANGED << config, coordinator >>

\* communicate() returns within the timeout: exit code and stdout are read,
\* the output is parsed and the coroutine returns or raises
Communicate(t) ==
    /\ task[t] = "probing"
    /\ \E out \in ProbeOutcomes :
         LET res == ParseProbe(out.returncode, out.stdout) IN
         /\ communicated' = communicated @@ (t :> out)
         /\ Leave(t, IF res.exc = None THEN "done" ELSE "raised", res)
    /\ proc' = [proc EXCEPT ![t] = "exited"]
    /\ UNCHANGED << config, coordinator >>

\* a timeout path that kills the process and returns without waiting for it
TimeoutNoWait(t) ==
    /\ task[t] = "probing"
    /\ proc' = [proc EXCEPT ![t] = "killed"]
    /\ Leave(t, "done", Returned(EmptyDict))
    /\ UNCHANGED << config, coordinator, communicated >>

\* wait_for raises TimeoutError: proc.kill(), then await proc.wait()
Timeout(t) ==
    /\ task[t] = "probing"
    /\ proc' = [proc EXCEPT ![t] = "killed"]
    /\ task' = [task EXCEPT ![t] = "killing"]
    /\ UNCHANGED << config, coordinator, result, communicated, out_of_order, sem_value,
                    waiters, woken >>

\* a timeout path that returns without giving its permit back
ReapLeaks(t) ==
    /\ task[t] = "killing"
    /\ proc' = [proc EXCEPT ![t] = "reaped"]
    /\ task' = [task EXCEPT ![t] = "done"]
    /\ result' = [result EXCEPT ![t] = Returned(EmptyDict)]
    /\ UNCHANGED << config, coordinator, communicated, out_of_order, sem_value,
                    waiters, woken >>

\* proc.wait() returns: the killed process is reaped, return {}
Reap(t) ==
    /\ task[t] = "killing"
    /\ proc' = [proc EXCEPT ![t] = "reaped"]
    /\ Leave(t, "done", Returned(EmptyDict))
    /\ UNCHANGED << config, coordinator, communicated >>

\* the semaphore after CancelledError was thrown into task t at its await
Cancelled(t) ==
    IF task[t] \in {"spawning", "probing", "killing"}
    THEN LET r == Release(sem_value, waiters, woken) IN
         [value |-> r.value, waiters |-> waiters, woken |-> r.woken]
    ELSE IF task[t] = "waiting"
    THEN LET ws == Remove(waiters, t)
             v  == IF t \in woken THEN sem_value + 1 ELSE sem_value
             r  == WakeUpWhile(v, ws, woken \ {t})
         IN [value |-> r.value, waiters |-> ws, woken |-> r.woken]
    ELSE [value |-> sem_value, waiters |-> waiters, woken |-> woken]

\* ---------------------------------------------------------- coordinator
\* a loop that pairs the files with the tasks in reverse
TaskOfMutant(i) == N + 1 - i

\* a loop that awaits the task created last first
TaskOfLastMutant(i) == IF i = 1 THEN N ELSE i - 1

\* zip(media_files, metadata_tasks): the task awaited for the i-th file
TaskOf(i) == i

\* main: the output check before generate_playlist is called
MainCheck ==
    /\ pc = "main"
    /\ pc' = IF ~output_file /\ isatty THEN "exit1" ELSE "setup"
    /\ UNCHANGED << config, idx, error, task, result, proc, communicated, out_of_order,
                    sem_value, waiters, woken, tracks, progress, terminal,
                    cleanup_calls >>

\* a setup that creates the probe tasks whether or not -m is given
SetupMutant ==
    /\ pc = "setup"
    /\ concurrency >= 0
    /\ progress' = IF isatty THEN NewProgress(N) ELSE NoProgress
    /\ pc' = "loop"
    /\ sem_value' = concurrency
    /\ task' = [t \in Items |-> "new"]
    /\ UNCHANGED << config, idx, error, result, proc, communicated, out_of_order,
                    waiters, woken, tracks, terminal, cleanup_calls >>

\* generate_playlist up to the zip loop: progress bar, semaphore, one task
\* per file (a never-awaited placeholder when -m is off)
Setup ==
    /\ pc = "setup"
    /\ progress' = IF isatty THEN NewProgress(N) ELSE NoProgress
    /\ IF concurrency < 0
       THEN /\ pc' = "error"
            /\ error' = "ValueError"
            /\ UNCHANGED << sem_value, task >>
       ELSE /\ pc' = "loop"
            /\ sem_value' = concurrency
            /\ task' = [t \in Items |-> IF use_metadata THEN "new" ELSE "none"]
            /\ UNCHANGED error
    /\ UNCHANGED << config, idx, result, proc, communicated, out_of_order, waiters,
                    woken, tracks, terminal, cleanup_calls >>

\* a loop that absorbs the exception of a task as an item without metadata
ProcessItemMutant ==
    /\ pc = "loop"
    /\ idx <= N
    /\ use_metadata => task[TaskOf(idx)] \in {"done", "raised"}
    /\ LET metadata == IF use_metadata THEN result[TaskOf(idx)].value ELSE EmptyDict
       IN /\ tracks' = Append(tracks, TrackOf(media_files[idx], metadata))
          /\ progress' = IF progress.exists THEN Updated(progress) ELSE progress
          /\ terminal' = IF progress.exists /\ ~progress.hidden_cursor
                         THEN Append(terminal, "HIDE") ELSE terminal
          /\ idx' = idx + 1
    /\ UNCHANGED << config, pc, error, task, result, proc, communicated, out_of_order,
                    sem_value, waiters, woken, cleanup_calls >>

\* one iteration of the zip loop: await the task, append the track, update
\* the progress bar; nothing suspends once the awaited task is finished
ProcessItem ==
    /\ pc = "loop"
    /\ idx <= N
    /\ use_metadata => task[TaskOf(idx)] \in {"done", "raised"}
    /\ IF use_metadata /\ task[TaskOf(idx)] = "raised"
       THEN /\ pc' = "error"
            /\ error' = result[TaskOf(idx)].exc
            /\ UNCHANGED << idx, tracks, progress, terminal >>
       ELSE LET metadata == IF use_metadata THEN result[TaskOf(idx)].value
                            ELSE EmptyDict
            IN /\ tracks' = Append(tracks, TrackOf(media_files[idx], metadata))
               /\ progress' = IF progress.exists THEN Updated(progress) ELSE progress
               /\ terminal' = IF progress.exists /\ ~progress.hidden_cursor
                              THEN Append(terminal, "HIDE") ELSE terminal
               /\ idx' = idx + 1
               /\ UNCHANGED << pc, error >>
    /\ UNCHANGED << config, task, result, proc, communicated, out_of_order, sem_value,
                    waiters, woken, cleanup_calls >>

\* AsyncProgressBar.cleanup, on (progress, terminal, cleanup_calls)
Cleanup ==
    /\ cleanup_calls' = cleanup_calls + 1
    /\ terminal' = IF progress.hidden_cursor THEN Append(terminal, "SHOW") ELSE terminal
    /\ progress' = [progress EXCEPT !.hidden_cursor = FALSE]

\* after the loop: write the document (the write can fail), then cleanup
WriteOutput ==
    /\ pc = "loop"
    /\ idx = N + 1
    /\ \E written \in {TRUE} \cup (IF output_file THEN {FALSE} ELSE {}) :
         IF written
         THEN /\ pc' = "returned"
              /\ IF progress.exists THEN Cleanup
                 ELSE UNCHANGED << progress, terminal, cleanup_calls >>
              /\ UNCHANGED error
         ELSE /\ pc' = "error"
              /\ error' = "OSError"
              /\ UNCHANGED << progress, terminal, cleanup_calls >>
    /\ UNCHANGED << config, idx, task, result, proc, communicated, out_of_order,
                    sem_value, waiters, woken, tracks >>

\* SIGINT while generate_playlist is suspended in "await metadata_task":
\* asyncio.run cancels the main task, which cancels the awaited task; the
\* CancelledError leaves generate_playlist and main catches it
Interrupt ==
    /\ pc = "loop"
    /\ idx <= N
    /\ use_metadata
    /\ task[TaskOf(idx)] \notin Terminal
    /\ LET c == Cancelled(TaskOf(idx)) IN
         /\ sem_value' = c.value
         /\ waiters' = c.waiters
         /\ woken' = c.woken
    /\ task' = [task EXCEPT ![TaskOf(idx)] = "cancelled"]
    /\ pc' = "caught"
    /\ error' = "CancelledError"
    /\ terminal' = IF isatty THEN Append(terminal, "SHOW") ELSE terminal
    /\ UNCHANGED << config, idx, result, proc, communicated, out_of_order, tracks,
                    progress, cleanup_calls >>

\* asyncio.run ends: every task still pending is cancelled and run to its end
CloseLoop ==
    /\ pc \in {"returned", "error", "caught"}
    /\ pc' = IF pc = "returned" THEN "exit0"
             ELSE IF pc = "error" THEN "error_exit" ELSE "cancel_exit"
    /\ task' = [t \in Items |->
                  IF task[t] \in Terminal \cup {"none"} THEN task[t] ELSE "cancelled"]
    /\ sem_value' = sem_value + Cardinality(InSection) + Cardinality(woken)
    /\ waiters' = << >>
    /\ woken' = {}
    /\ UNCHANGED << config, idx, error, result, proc, communicated, out_of_order,
                    tracks, progress, terminal, cleanup_calls >>

\* ---------------------------------------------------------- specification
Init ==
    /\ media_files \in {[i \in 1..n |-> << "file", i >>] : n \in 0..MaxFiles}
    /\ use_metadata \in BOOLEAN
    /\ isatty \in BOOLEAN
    /\ output_file \in BOOLEAN
    /\ concurrency \in -1..MaxConcurrency
    /\ pc = "main"
    /\ idx = 1
    /\ error = None
    /\ task = [t \in Items |-> "none"]
    /\ result = [t \in Items |-> Returned(EmptyDict)]
    /\ proc = [t \in Items |-> "none"]
    /\ communicated = << >>
    /\ out_of_order = FALSE
    /\ sem_value = 0
    /\ waiters = << >>
    /\ woken = {}
    /\ tracks = << >>
    /\ progress = NoProgress
    /\ terminal = << >>
    /\ cleanup_calls = 0

Next ==
    \/ MainCheck
    \/ Setup
    \/ ProcessItem
    \/ WriteOutput
    \/ Interrupt
    \/ CloseLoop
    \/ \E t \in Items : Acquire(t)
    \/ \E t \in Items : Resume(t)
    \/ \E t \in Items : Spawn(t)
    \/ \E t \in Items : Communicate(t)
    \/ \E t \in Items : Timeout(t)
    \/ \E t \in Items : Reap(t)

Spec == Init /\ [][Next]_vars

\* the steps of task t, and of main / generate_playlist / asyncio.run
TaskStep(t) ==
    /\ t \in Items
    /\ \/ Acquire(t) \/ Resume(t) \/ Spawn(t)
       \/ Communicate(t) \/ Timeout(t) \/ Reap(t)

CoordinatorStep == MainCheck \/ Setup \/ ProcessItem \/ WriteOutput \/ CloseLoop

\* the event loop runs every coroutine that can run, and every process
\* exits or hits the timeout of wait_for; an interrupt may never come
Fairness ==
    /\ WF_vars(CoordinatorStep)
    /\ \A t \in 1..MaxFiles : WF_vars(TaskStep(t))

FairInit == Init /\ Len(media_files) <= LiveFiles

FairSpec == FairInit /\ [][Next]_vars /\ Fairness

\* ------------------------------------------ the progress bar on its own
\* AsyncProgressBar driven by a caller that updates it once per item, or
\* that updates a bar of total 0; update divides by total after it counted
BarUpdate ==
    /\ pc = "bar"
    /\ error = None
    /\ progress.completed < progress.total \/ progress.total = 0
    /\ progress' = Updated(progress)
    /\ terminal' = IF ~progress.hidden_cursor THEN Append(terminal, "HIDE") ELSE terminal
    /\ error' = IF progress.total = 0 THEN "ZeroDivisionError" ELSE None
    /\ UNCHANGED << config, pc, idx, task, result, proc, communicated, out_of_order,
                    sem_value, waiters, woken, tracks, cleanup_calls >>

BarCleanup ==
    /\ pc = "bar"
    /\ Cleanup
    /\ pc' = "bar_end"
    /\ UNCHANGED << config, idx, error, task, result, proc, communicated, out_of_order,
                    sem_value, waiters, woken, tracks >>

BarInit ==
    /\ media_files = << >>
    /\ use_metadata = FALSE
    /\ isatty = TRUE
    /\ output_file = TRUE
    /\ concurrency = 1
    /\ pc = "bar"
    /\ idx = 1
    /\ error = None
    /\ task = << >>
    /\ result = << >>
    /\ proc = << >>
    /\ communicated = << >>
    /\ out_of_order = FALSE
    /\ sem_value = 0
    /\ waiters = << >>
    /\ woken = {}
    /\ tracks = << >>
    /\ progress \in {NewProgress(total) : total \in 0..MaxTotal}
    /\ terminal = << >>
    /\ cleanup_calls = 0

BarNext == BarUpdate \/ BarCleanup

BarSpec == BarInit /\ [][BarNext]_vars

\* ------------------------------------------------------------------ claims
\* positions of the coordinator
Returned0 == pc \in {"returned", "exit0"}
LeftGenerate == pc \in {"returned", "exit0", "error", "error_exit", "caught", "cancel_exit"}
Exited == pc \in {"exit0", "exit1", "error_exit", "cancel_exit"}
SemExists == concurrency >= 0 /\ pc \notin {"main", "setup", "exit1"}
Pending == {t \in Items : task[t] \in {"new", "waiting", "spawning", "probing", "killing"}}
CursorHidden == terminal # << >> /\ terminal[Len(terminal)] = "HIDE"
LocationOnly(track) == DOMAIN track = {"location"}

\* the output of a probe that exited is malformed: no JSON, or JSON that is
\* not an object holding objects where async_get_metadata reads them
Malformed(stdout) ==
    \/ ~stdout.valid
    \/ ~stdout.data.dict
    \/ ~Get(stdout.data, "format", JDict(EmptyDict)).dict
    \/ ~Get(Get(stdout.data, "format", JDict(EmptyDict)), "tags", JDict(EmptyDict)).dict

\* the probe of item t ended in a per-item failure: non-zero exit code,
\* malformed output, or timeout
ProbeFailed(t) ==
    \/ /\ t \in DOMAIN communicated
       /\ communicated[t].returncode # 0 \/ Malformed(communicated[t].stdout)
    \/ proc[t] = "reaped"

\* C1 (as claimed): for P >= 1, at most P tasks are inside the guarded section
\* and at most P probe processes are alive (not yet exited or reaped) at once
C1_AtMostPProcessesAlive ==
    concurrency >= 1 =>
        /\ Cardinality(InSection) <= concurrency
        /\ Cardinality({t \in Items : Unreaped(t)}) <= concurrency

\* C1 (amended): for P >= 1, at most P tasks hold a permit in every state, a
\* process exists only for a task that acquired a permit, and every process
\* that is alive belongs to a task inside the guarded section unless that
\* task was cancelled there (its process is abandoned); so at most P
\* processes of tasks that were not cancelled are alive at once
C1_BoundedSection ==
    concurrency >= 1 =>
        /\ Cardinality(InSection \cup woken) <= concurrency
        /\ \A t \in Items : task[t] \in {"none", "new", "waiting"} => proc[t] = "none"
        /\ \A t \in Items : Unreaped(t) => t \in InSection \/ task[t] = "cancelled"
        /\ Cardinality({t \in Items : Unreaped(t) /\ task[t] # "cancelled"}) <= concurrency

C1_Witness ==
    /\ concurrency >= 1
    /\ Cardinality({t \in InSection : proc[t] = "alive"}) = concurrency
    /\ \E t \in Items : task[t] = "waiting"

\* C2: a run that finishes normally has emitted N tracks, and in every state
\* the i-th emitted track carries the location of the i-th file and the
\* metadata returned by the i-th task, whatever the completion order
C2_OrderPreserved ==
    /\ Len(tracks) <= N
    /\ Returned0 => Len(tracks) = N
    /\ \A i \in 1..Len(tracks) :
         /\ tracks[i]["location"] = Location(media_files[i])
         /\ use_metadata =>
              /\ task[i] = "done"
              /\ tracks[i] = TrackOf(media_files[i], result[i].value)

C2_Witness ==
    /\ pc = "returned"
    /\ use_metadata
    /\ N >= 2
    /\ out_of_order
    /\ \E i, j \in Items : i < j /\ result[i].value # result[j].value

\* C3: once the semaphore exists, permits are conserved: the free permits plus
\* the permits held (tasks in the section, woken waiters) are the bound P, so
\* with no task inside the section and no woken waiter P permits are free
C3_NoPermitLeak ==
    SemExists =>
        /\ sem_value + Cardinality(InSection) + Cardinality(woken) = concurrency
        /\ sem_value >= 0
        /\ (InSection = {} /\ woken = {}) => sem_value = concurrency

C3_Witness ==
    /\ concurrency >= 1
    /\ InSection = {}
    /\ woken = {}
    /\ sem_value = concurrency
    /\ \E t \in Items : proc[t] = "reaped" /\ task[t] = "done"
    /\ \E t \in Items : task[t] = "cancelled" /\ proc[t] = "alive"
    /\ \E t \in Items : task[t] = "raised"

\* C4 (as claimed): the run never aborts at an item whose probe ended with a
\* non-zero exit code, a timeout or malformed output, and the track emitted
\* for such an item holds only its location
C4_FailureNeverAborts ==
    \A i \in Items :
        (use_metadata /\ ProbeFailed(i) /\ task[i] \in {"done", "raised"}) =>
            /\ ~(pc \in {"error", "error_exit"} /\ idx = i)
            /\ i <= Len(tracks) => LocationOnly(tracks[i])

\* C5 (as claimed): a task whose probe ended with a non-zero exit code,
\* malformed output or a timeout returns the empty record and raises nothing
C5_FailureReturnsEmpty ==
    \A t \in Items :
        (ProbeFailed(t) /\ task[t] \in {"done", "raised"}) =>
            /\ task[t] = "done"
            /\ result[t] = Returned(EmptyDict)

\* C6: a task that returned after a timeout has killed and reaped its process
\* and returned the empty record; a killed process that is not reaped belongs
\* to a task still waiting for it (or cancelled while waiting)
C6_TimeoutReaps ==
    \A t \in Items :
        /\ (task[t] = "done" /\ proc[t] \in {"killed", "reaped"}) =>
               proc[t] = "reaped" /\ result[t] = Returned(EmptyDict)
        /\ proc[t] = "killed" => task[t] \in {"killing", "cancelled"}

C6_Witness ==
    \E t \in Items :
        /\ task[t] = "done"
        /\ proc[t] = "reaped"
        /\ t \notin InSection
        /\ result[t] = Returned(EmptyDict)
        /\ sem_value >= 1

C9_CursorRestored == Exited => ~CursorHidden

\* C10 (as claimed): in a run with a valid bound, once generate_playlist has
\* returned or raised none of its tasks is pending, waiting or probing, and
\* when a reporter exists cleanup has been called exactly once
C10_TerminatesAfterTasks ==
    (concurrency >= 1 /\ LeftGenerate) =>
        /\ Pending = {}
        /\ progress.exists => cleanup_calls = 1

\* generate_playlist was left by an exception, or main refused to run it
Aborted == pc \in {"error", "error_exit", "caught", "cancel_exit"}
Refused == pc = "exit1"

C12_ConfigErrorFailsFast ==
    (concurrency <= 0 \/ (~output_file /\ isatty)) =>
        /\ \A t \in Items : task[t] = "none"
        /\ waiters = << >>

\* C13: a task whose spawn failed raised OSError; its item and the items after
\* it never get a track, the run never returns normally, and when the loop
\* reaches the item generate_playlist is left by that OSError
C13_SpawnFailurePropagates ==
    \A t \in Items :
        (task[t] = "raised" /\ result[t].exc = "OSError") =>
            /\ proc[t] = "none"
            /\ ~Returned0
            /\ Len(tracks) < t
            /\ idx <= t
            /\ (pc \in {"error", "error_exit"} /\ idx = t) => error = "OSError"

C13_Witness ==
    /\ pc = "error_exit"
    /\ error = "OSError"
    /\ idx \in Items
    /\ idx >= 2
    /\ task[idx] = "raised"
    /\ result[idx].exc = "OSError"
    /\ Len(tracks) = idx - 1

\* C14: in a run over 0 items update is never called (nothing is completed),
\* no task exists, the cursor is never hidden and nothing is written to the
\* terminal, the loop body is never entered (only the write remains), and a
\* run that finishes has an empty track list and one cleanup that writes
\* nothing
C14_ZeroItems ==
    N = 0 =>
        /\ progress.completed = 0
        /\ ~progress.hidden_cursor
        /\ terminal = << >>
        /\ DOMAIN task = {} /\ waiters = << >> /\ woken = {}
        /\ tracks = << >>
        /\ idx = 1
        /\ pc = "loop" => idx = N + 1
        /\ (Returned0 /\ progress.exists) => cleanup_calls = 1

C14_Witness ==
    /\ N = 0
    /\ pc = "exit0"
    /\ progress.exists
    /\ progress.total = 0
    /\ cleanup_calls = 1
    /\ tracks = << >>

\* the probe of item t exited normally with well-formed output; what that
\* output holds under "format"
WellFormed(t) ==
    /\ t \in DOMAIN communicated
    /\ communicated[t].returncode = 0
    /\ ~Malformed(communicated[t].stdout)
FormatOf(t) == Get(communicated[t].stdout.data, "format", JDict(EmptyDict))
TagsOf(t) == Get(FormatOf(t), "tags", JDict(EmptyDict)).items
TagElements == {ElementFor(k) : k \in TagKeys}

\* C15 (as claimed): an item whose probe exited normally with well-formed
\* output that reports no duration, or a duration that is no number, gets a
\* track without duration element, and its record does not fail
C15_NoDurationOmitted ==
    \A i \in 1..Len(tracks) :
        (use_metadata /\ WellFormed(i)
           /\ Get(FormatOf(i), "duration", None) \notin NumericText) =>
            /\ task[i] = "done"
            /\ "duration" \notin DOMAIN tracks[i]

\* the scenario of 3 items: title "A" with duration 125.4 s, a non-zero exit
\* code, output that is no JSON
Scenario3 ==
    /\ N = 3
    /\ use_metadata
    /\ DOMAIN communicated = 1..3
    /\ communicated[1].returncode = 0
    /\ communicated[1].stdout.valid
    /\ communicated[1].stdout.data =
         JDict([f \in {"format"} |->
            JDict([k \in {"tags", "duration"} |->
               IF k = "tags" THEN JDict([t \in {"title"} |-> "A"]) ELSE "125.400000"])])
    /\ communicated[2].returncode # 0
    /\ communicated[3].returncode = 0
    /\ ~communicated[3].stdout.valid

TaskMoves ==
    { << "none", "new" >>, << "new", "waiting" >>, << "new", "spawning" >>,
      << "waiting", "spawning" >>, << "spawning", "probing" >>,
      << "spawning", "raised" >>, << "probing", "done" >>, << "probing", "raised" >>,
      << "probing", "killing" >>, << "killing", "done" >> }
    \cup { << s, "cancelled" >> : s \in {"new", "waiting", "spawning", "probing", "killing"} }

C18_ZeroTotalNoDivision ==
    (progress.exists /\ progress.total = 0) => error # "ZeroDivisionError"

\* C19: for every total >= 1, after every update the bar has 20 cells of
\* which floor(20 * completed / total) are filled: between 0 and 20, 20
\* exactly when completed = total, and then the remaining time is 0 whatever
\* the clock shows; no update lowers the filled count
C19_BarFill ==
    /\ [](progress.total >= 1 =>
            /\ Filled(progress) \in 0..BarWidth
            /\ Filled(progress) + Empty(progress) = BarWidth
            /\ Filled(progress) * progress.total <= BarWidth * progress.completed
            /\ BarWidth * progress.completed < (Filled(progress) + 1) * progress.total
            /\ Filled(progress) = BarWidth <=> progress.completed = progress.total
            /\ progress.completed = progress.total =>
                 \A elapsed \in 0..MaxElapsed : Remaining(progress, elapsed) = {0})
    /\ [][progress.total >= 1 => Filled(progress') >= Filled(progress)]_vars

C19_Witness ==
    /\ progress.total > BarWidth
    /\ progress.completed = progress.total
    /\ progress.hidden_cursor
    /\ error = None
    /\ Filled(progress) = BarWidth
    /\ terminal = << "HIDE" >>
    /\ pc = "bar"

\* C20: when a reporter exists and completed = k, exactly the first k items in
\* discovery order have their track emitted, the loop stands at item k + 1,
\* and with metadata enabled the tasks of those k items have finished; a task
\* that finished early is counted only after every item before it
C20_DiscoveryOrder ==
    progress.exists =>
        /\ Len(tracks) = progress.completed
        /\ idx = progress.completed + 1
        /\ \A i \in 1..progress.completed :
             /\ tracks[i]["location"] = Location(media_files[i])
             /\ use_metadata => task[i] = "done"
        /\ \A t \in Items :
             (\E u \in 1..(t - 1) : use_metadata /\ task[u] # "done") =>
                 t > progress.completed

C20_Witness ==
    /\ progress.exists
    /\ use_metadata
    /\ pc = "loop"
    /\ N = 3
    /\ progress.completed = 1
    /\ task[3] = "done"
    /\ task[2] \in {"waiting", "spawning", "probing", "killing"}

====
